---- MODULE Spec2Model ----
(***************************************************************************)
(* The Voice (main_gui.py): the push-to-talk orchestrator (App and         *)
(* process_interaction) and the streaming recognition client               *)
(* (recognize_speech_volc_ws), as a state machine.                         *)
(*                                                                         *)
(* Tk runs every event handler (down, up, send_text, the settings Save) to *)
(* completion on the UI thread, so each handler is one action.  Each       *)
(* pipeline is a threading.Thread running process_interaction; its steps   *)
(* interleave with the handlers and with the other threads.                *)
(***************************************************************************)
EXTENDS Integers, Sequences, FiniteSets, TLC

\* ---------------------------------------------------------------- bounds
MaxChunks == 2      \* utterances of up to MaxChunks audio chunks
MaxTextLen == 1     \* texts of up to MaxTextLen characters
MaxThreads == 2     \* pipeline threads alive at the same time in Spec
MaxBlocks == 1      \* audio blocks the input stream delivers to one capture
MaxLines == 3       \* lines of one synthesis response
DaySecs == 3        \* seconds of one day of the clock
MaxDay == 1         \* the clock runs over days 0..MaxDay
MaxPayload == 2     \* bytes of the payload of a packed frame
MaxEntryLen == 2    \* characters in the entry when SpecTyped begins
MaxInputs == 3      \* lines the interactive loop reads

\* ------------------------------------------------------------- constants
SAMPLE_RATE == 16000

\* tts_http_stream: the code of the line that ends a response successfully
SUCCESS_CODE == 20000000

\* chunk = int(SAMPLE_RATE * 2 * 0.2)
chunk == (SAMPLE_RATE * 2 * 2) \div 10

\* ------------------------------------------------------- values and text
\* A Python/JSON value: a str (s holds its characters), None, a value that
\* is neither (a JSON number: truthy, and without str's methods), or a key
\* that is absent from a JSON object.  Prompt is one of the fixed status
\* strings of the GUI.
Str(s) == [t |-> "str", s |-> s]
None == [t |-> "none", s |-> <<>>]
Num == [t |-> "num", s |-> <<>>]
Absent == [t |-> "absent", s |-> <<>>]
Prompt(p) == [t |-> "prompt", s |-> <<p>>]

Chars == {" ", "a"}
Texts == UNION {[1..n -> Chars] : n \in 0..MaxTextLen}
JVals == {Absent, Num} \cup {Str(s) : s \in Texts}

\* Python truthiness: `if text:`, `if not user_text:`
Truthy(v) == \/ v.t = "num"
             \/ v.t \in {"str", "prompt"} /\ v.s # <<>>

RECURSIVE lstrip(_)
lstrip(s) == IF s # <<>> /\ Head(s) = " " THEN lstrip(Tail(s)) ELSE s

RECURSIVE rstrip(_)
rstrip(s) == IF s # <<>> /\ s[Len(s)] = " "
             THEN rstrip(SubSeq(s, 1, Len(s) - 1)) ELSE s

\* str.strip()
strip(s) == rstrip(lstrip(s))

\* ------------------------------------------------------------ utterances
\* wav_path: NoPath is None (AudioHandler.stop found nothing recorded); a
\* file is its number of PCM bytes (int16 samples: an even number).
NoPath == -1
PcmLens == {n \in {k * chunk + r : k \in 0..MaxChunks, r \in {0, 2, chunk - 2}} :
              n <= MaxChunks * chunk}

\* ---------------------------------------------------------------- frames
\* seq=None (the frame has no sequence field), written as a number that no
\* frame of the model carries as its sequence
NoSeq == -2147483647

EmptyPayload == [k |-> "bytes", lo |-> 0, hi |-> 0]
ConfigPayload == [k |-> "json", lo |-> 0, hi |-> 0]
\* Faulty variant of PcmSlice: the slice is not cut at the end of the buffer.
PcmSlice_uncut(n, i) == [k |-> "bytes", lo |-> i, hi |-> i + chunk]

\* pcm[i : i + chunk] of a buffer of n bytes
PcmSlice(n, i) == [k |-> "bytes", lo |-> i, hi |-> IF i + chunk < n THEN i + chunk ELSE n]

\* _pack_asr(msg_type, flags, payload, seq=None): the fields of the frame
pack_asr(msg_type, flags, payload, seq) ==
    [version |-> 1,
     header_words |-> IF seq # NoSeq THEN 2 ELSE 1,
     msg_type |-> msg_type,
     flags |-> flags,
     seq |-> seq,
     payload |-> payload]

\* ------------------------------------------- what ws.recv() may deliver
\* timeout/error: recv raises; str: a text message (not bytes); badjson:
\* bytes that json.loads rejects; notdict: JSON that is no object; json: an
\* object with an optional "text" (top) and an optional "result" that is an
\* object with an optional "text" (rtext) or is no object (nondict).  With
\* a truthy top the `or` never reads "result", so those messages carry none.
PlainMsg(k) == [kind |-> k, top |-> Absent, res |-> "absent", rtext |-> Absent]
Msgs == {PlainMsg(k) : k \in {"timeout", "error", "str", "badjson", "notdict"}}
        \cup {[kind |-> "json", top |-> v, res |-> "absent", rtext |-> Absent] :
                v \in JVals}
        \cup {[kind |-> "json", top |-> v, res |-> "nondict", rtext |-> Absent] :
                v \in {Absent, Str(<<>>)}}
        \cup {[kind |-> "json", top |-> v, res |-> "dict", rtext |-> x] :
                v \in {Absent, Str(<<>>)}, x \in JVals}

\* dict.get(key): None for an absent key
Get(v) == IF v = Absent THEN None ELSE v

\* The body of the try block up to `if text:`; raised = the bare except
\* caught something, text = the value `text` was bound to (None when the
\* block did not get that far).
ExtractText(msg) ==
    IF msg.kind \in {"timeout", "error", "badjson", "notdict"}
    THEN [raised |-> TRUE, text |-> None]
    ELSE IF msg.kind = "str"
    THEN [raised |-> FALSE, text |-> None]
    ELSE IF Truthy(Get(msg.top))
    THEN [raised |-> FALSE, text |-> msg.top]
    ELSE IF msg.res = "absent"
    THEN [raised |-> FALSE, text |-> None]
    ELSE IF msg.res = "nondict"
    THEN [raised |-> TRUE, text |-> None]
    ELSE [raised |-> FALSE, text |-> Get(msg.rtext)]

\* ----------------------------------------------------------------- state
VARIABLES
    processing,  \* App.processing: the in-flight flag
    space,       \* App.space: the trigger key is held and a capture runs
    focus,       \* root.focus_get() == entry
    entry,       \* the characters in the text entry
    config,      \* the global config object: "absent" (no attribute was ever
                 \* set), "empty" (attributes set, a credential is ""), "set"
    label,       \* the status label: [text, interim]
    recording,   \* AudioHandler.recording
    stream,      \* AudioHandler.stream: "none" (never created), "open", "closed"
    data,        \* AudioHandler.data: the recorded blocks (each its PCM bytes)
    thr,         \* the pipeline threads: thr[t] holds the locals of one
                 \* process_interaction call (pc = "none": no such thread)
    observe,     \* whether the histories below are kept (fixed by Init;
                 \* after_clear is kept in either case)
    clock,       \* the UTC clock, in seconds (datetime.utcnow())
    cur_log,     \* history: the statuses shown since the capture began
    hist         \* history: hist[t] is what the session of thread t did

vars == <<processing, space, focus, entry, config, label, recording, stream,
          data, thr, observe, clock, cur_log, hist>>

ui_vars == <<processing, space, focus, entry, config, recording, stream, data,
             observe, clock, cur_log>>

\* the thread slots of a specification (Init fixes the domain of thr)
Slots == 1..MaxThreads
Threads == DOMAIN thr

ReadyPrompt == Prompt("Press SPACE to speak or type below.")
Status(text, interim) == [text |-> text, interim |-> interim]

\* one event on a recognition connection
NoFrame == pack_asr(0, 0, EmptyPayload, NoSeq)
Connected == [ev |-> "connect", f |-> NoFrame]
Sent(f) == [ev |-> "frame", f |-> f]
Closed == [ev |-> "close", f |-> NoFrame]

\* The locals of recognize_speech_volc_ws before the call and after it.
NoAsr ==
    [partial_cb |-> FALSE,    \* a partial_cb was passed
     pcm |-> 0,               \* len(pcm)
     i |-> 0,                 \* the loop variable of the streaming loop
     seq |-> 1,
     final_text |-> Str(<<>>)]

\* ------------------------------------------- the synthesis response
\* What response.iter_lines() yields next: an empty line, a line that
\* json.loads rejects, a JSON object (its code, data.get("code", 0); whether
\* it has a non-empty "data"; whether it has a non-empty "sentence"), or
\* "drop": the connection fails and iter_lines raises.
PlainLine(k) == [kind |-> k, code |-> 0, data |-> FALSE, sentence |-> FALSE]
Codes == {-1, 0, 5, SUCCESS_CODE}
Lines == {PlainLine(k) : k \in {"blank", "garbage", "drop"}}
         \cup {[kind |-> "json", code |-> c, data |-> d, sentence |-> e] :
                 c \in Codes, d \in BOOLEAN, e \in BOOLEAN}
Responses == UNION {[1..n -> Lines] : n \in 0..MaxLines}

\* audio_save_path: no file, or a file holding the chunks `audio`
NoFile == [written |-> FALSE, audio |-> <<>>]
File(audio) == [written |-> TRUE, audio |-> audio]

\* The locals of tts_http_stream before the call and after it.  The audio
\* decoded from line k of the response is written k.
NoTts ==
    [response |-> <<>>,       \* the lines the server sends
     bound |-> FALSE,         \* `response` is bound (session.post returned)
     k |-> 0,                 \* lines consumed by the loop
     audio_data |-> <<>>,     \* the accumulator
     saved |-> FALSE]         \* audio_save_path was written

\* ------------------------------------------------------- volc_tts_sign
\* Its arguments, its locals and what it returned.  A timestamp is written
\* as strftime gives it: ymd its first 8 characters (%Y%m%d), hms the rest.
NoStamp == [ymd |-> -1, hms |-> -1]
NoSign ==
    [access_key |-> "", secret_key |-> "", body |-> "",
     now |-> -1,
     x_date |-> NoStamp,
     date |-> -1,
     canonical_request |-> NoStamp,   \* the x-date line of it
     credential_scope |-> -1,         \* the date of it
     string_to_sign |-> NoStamp,      \* the timestamp line of it
     k_date |-> -1,                   \* the date the key was derived from
     ret |-> NoStamp]                 \* the x_date returned

\* The arguments of a call of _pack_asr and the bytes it returned.
NoPack == [msg_type |-> 0, flags |-> 0, payload |-> <<>>, seq |-> NoSeq,
           ret |-> <<>>]

\* The locals of a thread that does not exist.
NoThread ==
    [pc |-> "none",
     audio_path |-> NoPath,
     text_input |-> None,
     user_text |-> None,
     spoken |-> None,
     out |-> "none",          \* what tts_volc returned: "none", "file", "missing"
     asr |-> NoAsr,
     tts |-> NoTts,
     sign |-> NoSign,
     frame |-> NoPack,
     ret |-> None]            \* what recognize_speech_volc_ws returned

Raised == [t |-> "raised", s |-> <<>>]

NoHist ==
    [audio_path |-> NoPath,   \* the arguments of the session
     text_input |-> None,
     cfg0 |-> "none",         \* config when the session began ("none": no session)
     wire |-> <<>>,           \* connect, the frames sent, close
     msgs |-> <<>>,           \* what ws.recv() delivered, in order
     ret |-> Absent,          \* what the recognition call returned, or Raised
     attempts |-> 0,          \* create_connection calls
     net |-> {},              \* the services a request went to
     stages |-> {},           \* the pipeline stages entered
     failed |-> {},           \* the stages that raised
     log |-> <<>>,            \* the statuses of this session
     response |-> <<>>,       \* the synthesis response of the session
     consumed |-> 0,          \* lines the parser took from it
     terminal |-> "none",     \* how the loop was left: "usage", "error"
     file |-> NoFile,         \* the audio persisted at audio_save_path
     released |-> {},         \* of "response" and "session": those closed
     tts_ret |-> "none",      \* tts_volc: "path" (returned it) or "raised"
     inputs |-> 0,            \* run_interactive_mode: the input() calls made
     errors |-> 0,            \* run_interactive_mode: the iterations a stage
                              \* ended by raising into `except Exception`
     after_clear |-> FALSE]   \* the session was accepted while a finishing
                              \* thread had cleared the flag in done() and
                              \* not yet emitted its ready status

\* hist with the history of thread t changed to h, when histories are kept
Record(t, h) == IF observe THEN [hist EXCEPT ![t] = h] ELSE hist

\* A thread about to run recognize_speech_volc_ws(wav_path, partial_cb).
AsrCall(wav_path, cb) ==
    [NoThread EXCEPT !.pc = "asr_connect", !.audio_path = wav_path,
                     !.asr = [NoAsr EXCEPT !.partial_cb = cb]]

\* The call is over: its locals are gone.
AsrReturn(r, ret) == [r EXCEPT !.pc = "asr_ret", !.ret = ret, !.asr = NoAsr]
AsrRaise(r) == [r EXCEPT !.pc = "asr_exc", !.asr = NoAsr]

\* Faulty variant of asr_connect: a failed connection attempt is made once more.
asr_connect_retry(t) ==
    /\ t \in Threads
    /\ thr[t].pc = "asr_connect"
    /\ config # "absent"
    /\ \E ok \in BOOLEAN :
         /\ thr' = [thr EXCEPT ![t] = IF ok THEN [@ EXCEPT !.pc = "asr_read"]
                                      ELSE IF hist[t].attempts = 0 THEN @
                                      ELSE AsrRaise(@)]
         /\ hist' = Record(t, [hist[t] EXCEPT
                        !.attempts = @ + 1,
                        !.net = @ \cup {"asr"},
                        !.wire = IF ok THEN Append(@, Connected) ELSE @])
    /\ UNCHANGED <<ui_vars, label>>

\* ------------------------------------------ recognize_speech_volc_ws
\* websocket.create_connection(config.VOLC_ASR_WS_URL, header=[...], timeout=10).
\* The arguments are evaluated first: with no attribute on config the call
\* is never made (AttributeError).  Otherwise it connects, or raises.
asr_connect(t) ==
    /\ t \in Threads
    /\ thr[t].pc = "asr_connect"
    /\ \/ /\ config = "absent"
          /\ thr' = [thr EXCEPT ![t] = AsrRaise(@)]
          /\ UNCHANGED hist
       \/ /\ config # "absent"
          /\ \E ok \in BOOLEAN :
               /\ thr' = [thr EXCEPT ![t] = IF ok THEN [@ EXCEPT !.pc = "asr_read"]
                                                  ELSE AsrRaise(@)]
               /\ hist' = Record(t, [hist[t] EXCEPT
                              !.attempts = @ + 1,
                              !.net = @ \cup {"asr"},
                              !.wire = IF ok THEN Append(@, Connected) ELSE @])
    /\ UNCHANGED <<ui_vars, label>>

\* rate, data = wav.read(wav_path); pcm = data.astype(np.int16).tobytes().
\* wav.read(None) raises; so does an unreadable file.
asr_read(t) ==
    /\ t \in Threads
    /\ thr[t].pc = "asr_read"
    /\ \/ /\ thr[t].audio_path # NoPath
          /\ thr' = [thr EXCEPT ![t].asr.pcm = thr[t].audio_path,
                                ![t].pc = "asr_config"]
       \/ thr' = [thr EXCEPT ![t] = AsrRaise(@)]
    /\ UNCHANGED <<ui_vars, label, hist>>

\* ws.send_binary(frame) by thread t: the frame is sent and the thread goes
\* on as r, or the call raises.
Send(t, f, r) ==
    \/ /\ thr' = [thr EXCEPT ![t] = r]
       /\ hist' = Record(t, [hist[t] EXCEPT !.wire = Append(@, Sent(f))])
    \/ /\ thr' = [thr EXCEPT ![t] = AsrRaise(@)]
       /\ UNCHANGED hist

\* Faulty variant of asr_config: the audio starts without the config frame.
asr_config_skipped(t) ==
    /\ t \in Threads
    /\ thr[t].pc = "asr_config"
    /\ thr' = [thr EXCEPT ![t].pc = "asr_loop"]
    /\ UNCHANGED <<ui_vars, label, hist>>

\* ws.send_binary(_pack_asr(1, 0, json.dumps({...}).encode()))
asr_config(t) ==
    /\ t \in Threads
    /\ thr[t].pc = "asr_config"
    /\ Send(t, pack_asr(1, 0, ConfigPayload, NoSeq),
            [thr[t] EXCEPT !.pc = "asr_loop"])
    /\ UNCHANGED <<ui_vars, label>>

\* for i in range(0, len(pcm), chunk):
\*     ws.send_binary(_pack_asr(2, 1, pcm[i : i + chunk], seq=seq)); seq += 1
asr_loop(t) ==
    /\ t \in Threads
    /\ thr[t].pc = "asr_loop"
    /\ LET a == thr[t].asr IN
       IF a.i < a.pcm
       THEN Send(t, pack_asr(2, 1, PcmSlice(a.pcm, a.i), a.seq),
                 [thr[t] EXCEPT !.asr.seq = @ + 1, !.pc = "asr_recv"])
       ELSE /\ thr' = [thr EXCEPT ![t].pc = "asr_term"]
            /\ UNCHANGED hist
    /\ UNCHANGED <<ui_vars, label>>

\* if text: final_text = text
NewFinalText(final_text, got) ==
    IF ~got.raised /\ Truthy(got.text) THEN got.text ELSE final_text

\* ws.settimeout(0.2); try: msg = ws.recv(); ... except: pass; time.sleep(0.2)
\* A truthy text overwrites final_text and goes to partial_cb, which is
\* process_interaction's on_partial: update(t, interim=True).
recv(t, msg) ==
    /\ t \in Threads
    /\ thr[t].pc = "asr_recv"
    /\ LET got == ExtractText(msg)
           shown == ~got.raised /\ Truthy(got.text) /\ thr[t].asr.partial_cb
       IN /\ thr' = [thr EXCEPT
                ![t].asr.final_text = NewFinalText(@, got),
                ![t].asr.i = @ + chunk,
                ![t].pc = "asr_loop"]
          /\ label' = IF shown THEN Status(got.text, TRUE) ELSE label
          /\ hist' = Record(t, [hist[t] EXCEPT
                         !.msgs = Append(@, msg),
                         !.log = IF shown THEN Append(@, Status(got.text, TRUE))
                                          ELSE @])
    /\ UNCHANGED ui_vars

asr_recv(t) == \E msg \in Msgs : recv(t, msg)

\* Faulty variant of asr_term: the terminating frame negates the last sequence sent.
asr_term_last(t) ==
    /\ t \in Threads
    /\ thr[t].pc = "asr_term"
    /\ Send(t, pack_asr(2, 3, EmptyPayload, -(thr[t].asr.seq - 1)),
            [thr[t] EXCEPT !.pc = "asr_close"])
    /\ UNCHANGED <<ui_vars, label>>

\* ws.send_binary(_pack_asr(2, 3, b"", seq=-seq))
asr_term(t) ==
    /\ t \in Threads
    /\ thr[t].pc = "asr_term"
    /\ Send(t, pack_asr(2, 3, EmptyPayload, -thr[t].asr.seq),
            [thr[t] EXCEPT !.pc = "asr_close"])
    /\ UNCHANGED <<ui_vars, label>>

\* return final_text.strip() if final_text else None
\* (a truthy final_text that is no str has no strip: AttributeError)
asr_result(r) ==
    LET final_text == r.asr.final_text IN
    IF ~Truthy(final_text) THEN AsrReturn(r, None)
    ELSE IF final_text.t = "str" THEN AsrReturn(r, Str(strip(final_text.s)))
    ELSE AsrRaise(r)

\* time.sleep(0.8); ws.close(); return ...
asr_close(t) ==
    /\ t \in Threads
    /\ thr[t].pc = "asr_close"
    /\ thr' = [thr EXCEPT ![t] = asr_result(@)]
    /\ hist' = Record(t, [hist[t] EXCEPT
                   !.wire = Append(@, Closed),
                   !.ret = IF asr_result(thr[t]).pc = "asr_ret"
                           THEN asr_result(thr[t]).ret ELSE Raised])
    /\ UNCHANGED <<ui_vars, label>>

recognize_speech_volc_ws(t) ==
    \/ asr_connect(t)
    \/ asr_read(t)
    \/ asr_config(t)
    \/ asr_loop(t)
    \/ asr_recv(t)
    \/ asr_term(t)
    \/ asr_close(t)

\* ------------------------------------------------------------------------
\* SpecAsr: one direct call recognize_speech_volc_ws(wav_path, partial_cb)
\* on any wav file of the bounded set, the empty one included.
InitUi ==
    /\ processing = FALSE
    /\ space = FALSE
    /\ focus = FALSE
    /\ entry = <<>>
    /\ label = Status(ReadyPrompt, FALSE)
    /\ recording = FALSE
    /\ stream = "none"
    /\ data = <<>>
    /\ cur_log = <<>>
    /\ clock = 0

InitAsr ==
    /\ InitUi
    /\ config \in {"absent", "empty", "set"}
    /\ observe = TRUE
    /\ \E n \in PcmLens \cup {NoPath}, cb \in BOOLEAN : thr = <<AsrCall(n, cb)>>
    /\ hist = <<NoHist>>

NextAsr == \E t \in Slots : recognize_speech_volc_ws(t)

SpecAsr == InitAsr /\ [][NextAsr]_vars

\* ------------------------------------------------------------------------
\* App: the handlers of the UI thread

\* threading.Thread(target=process_interaction,
\*                  args=(audio_path, self.update, self.done, text_input))
Interaction(audio_path, text_input) ==
    [NoThread EXCEPT !.pc = "start", !.audio_path = audio_path,
                     !.text_input = text_input]

Alive == {t \in Threads : thr[t].pc # "none"}
\* the pipelines executing process_interaction (its last statement is
\* done(); after it the thread only ends)
Running == {t \in Threads : thr[t].pc \notin {"none", "exit"}}
\* the threads inside done(): past self.processing = False, before
\* self.update(...)
Clearing == {t \in Threads : thr[t].pc = "done_update"}
FreeSlot == CHOOSE t \in Threads \ Alive : \A u \in Threads \ Alive : t <= u

\* Thread(...).start() of a session that has shown the statuses `shown`;
\* the model holds at most as many threads as thr has slots.
start_thread(r, shown) ==
    /\ Alive # Threads
    /\ thr' = [thr EXCEPT ![FreeSlot] = r]
    /\ hist' = [hist EXCEPT ![FreeSlot] =
                   IF observe
                   THEN [NoHist EXCEPT !.audio_path = r.audio_path,
                                       !.text_input = r.text_input,
                                       !.cfg0 = config,
                                       !.log = shown,
                                       !.after_clear = Clearing # {}]
                   ELSE [NoHist EXCEPT !.after_clear = Clearing # {}]]

\* A click into the entry, or away from it (root.focus_get() == self.entry).
focus_entry ==
    /\ focus' = ~focus
    /\ UNCHANGED <<processing, space, entry, config, label, recording, stream,
                   data, thr, observe, clock, cur_log, hist>>

\* The user edits the entry, which has the keyboard focus.
type_text ==
    /\ focus
    /\ \E s \in Texts : entry' = s /\ s # entry
    /\ UNCHANGED <<processing, space, focus, config, label, recording, stream,
                   data, thr, observe, clock, cur_log, hist>>

\* SettingsDialog.save -> save_user_config: every attribute is set, each to
\* the stripped content of its field, which may be empty.
save ==
    /\ \E c \in {"empty", "set"} : config' = c /\ c # config
    /\ UNCHANGED <<processing, space, focus, entry, label, recording, stream,
                   data, thr, observe, clock, cur_log, hist>>

\* the PCM bytes of one block of the input stream: one sample, or 200 ms
BlockLens == {2, chunk}

RECURSIVE Sum(_)
Sum(blocks) == IF blocks = <<>> THEN 0 ELSE Head(blocks) + Sum(Tail(blocks))

\* AudioHandler.start's cb: the audio thread appends a block while recording.
cb ==
    /\ recording /\ stream = "open"
    /\ Len(data) < MaxBlocks
    /\ \E n \in BlockLens : data' = Append(data, n)
    /\ UNCHANGED <<processing, space, focus, entry, config, label, recording,
                   stream, thr, observe, clock, cur_log, hist>>

Listening == Status(Prompt("Listening..."), TRUE)
Thinking == Status(Prompt("Thinking..."), FALSE)
Preparing == Status(Prompt("Preparing voice..."), FALSE)
CouldNotHear == Status(Prompt("Could not hear clearly."), FALSE)
Ready == Status(ReadyPrompt, FALSE)

\* Faulty variant of down: the flag is not looked at.
down_unguarded ==
    IF space \/ focus
    THEN UNCHANGED vars
    ELSE /\ space' = TRUE
         /\ data' = <<>>
         /\ recording' = TRUE
         /\ \/ /\ stream' = "open"
               /\ label' = Listening
               /\ cur_log' = IF observe THEN <<Listening>> ELSE cur_log
            \/ /\ UNCHANGED <<stream, label>>
               /\ cur_log' = <<>>
         /\ UNCHANGED <<processing, focus, entry, config, thr, observe, clock, hist>>

\* App.down.  AudioHandler.start clears data, sets recording and opens the
\* input stream; when sd.InputStream raises (no input device) the handler
\* ends there, after space was set.
down ==
    IF processing \/ space \/ focus
    THEN UNCHANGED vars
    ELSE /\ space' = TRUE
         /\ data' = <<>>
         /\ recording' = TRUE
         /\ \/ /\ stream' = "open"
               /\ label' = Listening
               /\ cur_log' = IF observe THEN <<Listening>> ELSE cur_log
            \/ /\ UNCHANGED <<stream, label>>
               /\ cur_log' = <<>>
         /\ UNCHANGED <<processing, focus, entry, config, thr, observe, clock, hist>>

\* AudioHandler.stop's result: None when nothing was recorded, else the
\* wav file of the concatenated blocks
wav_path(blocks) == IF blocks = <<>> THEN NoPath ELSE Sum(blocks)

\* App.up.  AudioHandler.stop: recording = False; stream.stop() and
\* stream.close() raise when start never opened a stream (self.stream is
\* missing, or is the closed stream of an earlier capture): the handler ends
\* there, after processing was set, and starts no thread.
up ==
    IF ~space
    THEN UNCHANGED vars
    ELSE /\ space' = FALSE
         /\ processing' = TRUE
         /\ recording' = FALSE
         /\ IF stream # "open"
            THEN UNCHANGED <<stream, thr, hist>>
            ELSE /\ stream' = "closed"
                 /\ start_thread(Interaction(wav_path(data), None),
                                 cur_log)
         /\ UNCHANGED <<focus, entry, config, label, data, observe, clock, cur_log>>

\* Faulty variant of send_text: the content of the entry is submitted as it is.
send_text_unstripped ==
    IF processing \/ entry = <<>>
    THEN UNCHANGED vars
    ELSE /\ entry' = <<>>
         /\ processing' = TRUE
         /\ label' = Thinking
         /\ start_thread(Interaction(NoPath, Str(entry)), <<Thinking>>)
         /\ UNCHANGED <<space, focus, config, recording, stream, data, observe, clock,
                        cur_log>>

\* App.send_text (Return in the entry, or the Send button)
send_text ==
    IF processing \/ strip(entry) = <<>>
    THEN UNCHANGED vars
    ELSE /\ entry' = <<>>
         /\ processing' = TRUE
         /\ label' = Thinking
         /\ start_thread(Interaction(NoPath, Str(strip(entry))), <<Thinking>>)
         /\ UNCHANGED <<space, focus, config, recording, stream, data, observe, clock,
                        cur_log>>

\* ------------------------------------------------------------------------
\* process_interaction(audio_path, update, done, text_input=None)

\* Thread t goes on as r, having entered the stages `stages` (of which
\* `failed` raised), sent requests to the services `net` and called
\* update(status) for each of `shown`.
Step(t, r, stages, failed, net, shown) ==
    /\ thr' = [thr EXCEPT ![t] = r]
    /\ label' = IF shown = <<>> THEN label ELSE shown[Len(shown)]
    /\ hist' = Record(t, [hist[t] EXCEPT !.stages = @ \cup stages,
                                         !.failed = @ \cup failed,
                                         !.net = @ \cup net,
                                         !.log = @ \o shown])
    /\ UNCHANGED ui_vars

\* The try block is left by return or by an exception: only done() remains,
\* which reads none of the locals.
Leave == [NoThread EXCEPT !.pc = "finally"]

\* if text_input: user_text = text_input
\* else: update("Listening...", interim=True); recognize_speech_volc_ws(...)
pi_start(t) ==
    /\ t \in Threads
    /\ thr[t].pc = "start"
    /\ IF Truthy(thr[t].text_input)
       THEN Step(t, [thr[t] EXCEPT !.user_text = thr[t].text_input, !.pc = "check"],
                 {}, {}, {}, <<>>)
       ELSE Step(t, [thr[t] EXCEPT !.asr.partial_cb = TRUE, !.pc = "asr_connect"],
                 {"recognize"}, {}, {}, <<Listening>>)

\* user_text = recognize_speech_volc_ws(...), or its exception propagates
pi_recognized(t) ==
    /\ t \in Threads
    /\ thr[t].pc \in {"asr_ret", "asr_exc"}
    /\ IF thr[t].pc = "asr_ret"
       THEN Step(t, [thr[t] EXCEPT !.user_text = thr[t].ret, !.ret = None,
                                   !.pc = "check"], {}, {}, {}, <<>>)
       ELSE Step(t, Leave, {}, {"recognize"}, {}, <<>>)

\* if not user_text: update("Could not hear clearly."); time.sleep(1); return
\* update(user_text)
pi_check(t) ==
    /\ t \in Threads
    /\ thr[t].pc = "check"
    /\ IF ~Truthy(thr[t].user_text)
       THEN Step(t, Leave, {}, {}, {}, <<CouldNotHear>>)
       ELSE Step(t, [thr[t] EXCEPT !.pc = "gen"], {}, {}, {},
                 <<Status(thr[t].user_text, FALSE)>>)

\* genai.configure(api_key=config.GEMINI_API_KEY); model.generate_content(prompt);
\* spoken = resp.text.strip(); update("Preparing voice...").  There is no
\* except clause: whatever raises here ends the interaction.  With no
\* attribute on config the request is never made.
pi_generate(t) ==
    /\ t \in Threads
    /\ thr[t].pc = "gen"
    /\ IF config = "absent"
       THEN Step(t, Leave, {"generate"}, {"generate"}, {}, <<>>)
       ELSE \/ Step(t, Leave, {"generate"}, {"generate"}, {"llm"}, <<>>)
            \/ \E s \in Texts :
                 Step(t, [thr[t] EXCEPT !.spoken = Str(strip(s)), !.pc = "tts"],
                      {"generate"}, {}, {"llm"}, <<Preparing>>)

\* out = tts_volc(spoken); update("Preparing voice...").  tts_http_stream
\* catches what the request and the read loop raise, and writes the file
\* only when audio was accumulated; tts_volc returns the path either way.
\* When session.post itself raises, `response` is unbound in the finally
\* clause and that error propagates; when it never returns (no timeout is
\* passed) the thread stays in it.
pi_tts(t) ==
    /\ t \in Threads
    /\ thr[t].pc = "tts"
    /\ IF config = "absent"
       THEN Step(t, Leave, {"synthesize"}, {"synthesize"}, {}, <<>>)
       ELSE \/ Step(t, Leave, {"synthesize"}, {"synthesize"}, {"tts"}, <<>>)
            \/ Step(t, [thr[t] EXCEPT !.pc = "tts_hung"], {"synthesize"}, {}, {"tts"}, <<>>)
            \/ \E o \in {"file", "missing"} :
                 Step(t, [thr[t] EXCEPT !.out = o, !.pc = "post"],
                      {"synthesize"}, {}, {"tts"}, <<Preparing>>)

\* processed = postprocess_audio(out, ...): subprocess.run(cmd, check=True)
\* raises when ffmpeg fails, as it does on a missing input file.
pi_postprocess(t) ==
    /\ t \in Threads
    /\ thr[t].pc = "post"
    /\ \/ /\ thr[t].out = "file"
          /\ Step(t, [thr[t] EXCEPT !.pc = "play"], {"postprocess"}, {}, {}, <<>>)
       \/ Step(t, Leave, {"postprocess"}, {"postprocess"}, {}, <<>>)

\* subprocess.run(["afplay", str(processed)]): plays, or raises
pi_play(t) ==
    /\ t \in Threads
    /\ thr[t].pc = "play"
    /\ \E failed \in {{}, {"play"}} : Step(t, Leave, {"play"}, failed, {}, <<>>)

\* ------------------------------------------------------------------------
\* tts_volc(text) and tts_http_stream(url, headers, params, audio_save_path),
\* statement by statement

\* A thread about to run tts_volc(spoken) in a session that has its text;
\* the server will answer with `response`.
TtsCall(response) ==
    [NoThread EXCEPT !.pc = "tts_post", !.user_text = Str(<<"a">>),
                     !.spoken = Str(<<"a">>),
                     !.tts = [NoTts EXCEPT !.response = response]]

\* Faulty variant of ParseLine: the success code does not end the loop.
ParseLine_no_break(line) ==
    IF line.kind \in {"drop", "garbage"} THEN "raise"
    ELSE IF line.kind = "blank" THEN "continue"
    ELSE IF line.code = 0 /\ line.data THEN "append"
    ELSE IF line.code = 0 /\ line.sentence THEN "continue"
    ELSE IF line.code = SUCCESS_CODE THEN "continue"
    ELSE IF line.code > 0 THEN "error"
    ELSE "continue"

\* The body of the for loop for one line: what it does with it.
\*   if not chunk: continue
\*   data = json.loads(chunk)
\*   if data.get("code", 0) == 0 and "data" in data and data["data"]: append
\*   if data.get("code", 0) == 0 and "sentence" in data and data["sentence"]: continue
\*   if data.get("code", 0) == 20000000: break
\*   if data.get("code", 0) > 0: break
ParseLine(line) ==
    IF line.kind = "drop" THEN "raise"
    ELSE IF line.kind = "blank" THEN "continue"
    ELSE IF line.kind = "garbage" THEN "raise"
    ELSE IF line.code = 0 /\ line.data THEN "append"
    ELSE IF line.code = 0 /\ line.sentence THEN "continue"
    ELSE IF line.code = SUCCESS_CODE THEN "usage"
    ELSE IF line.code > 0 THEN "error"
    ELSE "continue"

\* tts_volc builds the headers from config (AttributeError when config has
\* no attribute) and calls tts_http_stream: session.post(..., stream=True)
\* returns the response, or raises into `except Exception`; the call has no
\* timeout argument, so with a server that never answers it never returns.
tts_post(t) ==
    /\ t \in Threads
    /\ thr[t].pc = "tts_post"
    /\ IF config = "absent"
       THEN /\ thr' = [thr EXCEPT ![t].pc = "tts_exc", ![t].tts = NoTts]
            /\ hist' = Record(t, [hist[t] EXCEPT
                           !.stages = @ \cup {"synthesize"},
                           !.failed = @ \cup {"synthesize"},
                           !.tts_ret = "raised"])
       ELSE \E post \in {"returns", "raises", "hangs"} :
            /\ thr' = [thr EXCEPT ![t].tts.bound = (post = "returns"),
                                  ![t].pc = IF post = "returns" THEN "tts_lines"
                                            ELSE IF post = "raises" THEN "tts_finally"
                                            ELSE "tts_hung"]
            /\ hist' = Record(t, [hist[t] EXCEPT
                           !.stages = @ \cup {"synthesize"},
                           !.net = @ \cup {"tts"},
                           !.response = IF post = "returns" THEN thr[t].tts.response
                                        ELSE @])
    /\ UNCHANGED <<ui_vars, label>>

\* for chunk in response.iter_lines(decode_unicode=True): ...
\* An exception in the loop body goes to `except Exception`, past the save.
tts_line(t) ==
    /\ t \in Threads
    /\ thr[t].pc = "tts_lines"
    /\ LET c == thr[t].tts IN
       IF c.k = Len(c.response)
       THEN /\ thr' = [thr EXCEPT ![t].pc = "tts_save"]
            /\ UNCHANGED hist
       ELSE LET did == ParseLine(c.response[c.k + 1]) IN
            /\ thr' = [thr EXCEPT
                  ![t].tts.k = @ + 1,
                  ![t].tts.audio_data = IF did = "append" THEN Append(@, c.k + 1) ELSE @,
                  ![t].pc = IF did \in {"usage", "error"} THEN "tts_save"
                            ELSE IF did = "raise" THEN "tts_finally"
                            ELSE "tts_lines"]
            /\ hist' = Record(t, [hist[t] EXCEPT
                           !.consumed = @ + 1,
                           !.terminal = IF did \in {"usage", "error"} THEN did ELSE @])
    /\ UNCHANGED <<ui_vars, label>>

\* Faulty variant of tts_save: what was accumulated before an error code is dropped.
tts_save_discard(t) ==
    /\ t \in Threads
    /\ thr[t].pc = "tts_save"
    /\ LET c == thr[t].tts
           err == c.k >= 1 /\ ParseLine(c.response[c.k]) = "error"
           audio_data == IF err THEN <<>> ELSE c.audio_data
       IN
       /\ thr' = [thr EXCEPT ![t].tts.saved = (audio_data # <<>>),
                             ![t].pc = "tts_finally"]
       /\ hist' = Record(t, [hist[t] EXCEPT
                      !.file = IF audio_data # <<>> THEN File(audio_data) ELSE @])
    /\ UNCHANGED <<ui_vars, label>>

\* if audio_data: with open(audio_save_path, "wb") as f: f.write(audio_data)
tts_save(t) ==
    /\ t \in Threads
    /\ thr[t].pc = "tts_save"
    /\ LET audio_data == thr[t].tts.audio_data IN
       /\ thr' = [thr EXCEPT ![t].tts.saved = (audio_data # <<>>),
                             ![t].pc = "tts_finally"]
       /\ hist' = Record(t, [hist[t] EXCEPT
                      !.file = IF audio_data # <<>> THEN File(audio_data) ELSE @])
    /\ UNCHANGED <<ui_vars, label>>

\* finally: response.close(); session.close().  When session.post raised,
\* `response` is unbound: response.close() raises UnboundLocalError before
\* session.close() and the error leaves tts_http_stream and tts_volc.
\* Otherwise tts_volc returns audio_save_path, written or not.
tts_finally(t) ==
    /\ t \in Threads
    /\ thr[t].pc = "tts_finally"
    /\ IF thr[t].tts.bound
       THEN /\ thr' = [thr EXCEPT
                  ![t].out = IF thr[t].tts.saved THEN "file" ELSE "missing",
                  ![t].tts = NoTts,
                  ![t].pc = "tts_ret"]
            /\ hist' = Record(t, [hist[t] EXCEPT
                           !.released = {"response", "session"},
                           !.tts_ret = "path"])
       ELSE /\ thr' = [thr EXCEPT ![t].tts = NoTts, ![t].pc = "tts_exc"]
            /\ hist' = Record(t, [hist[t] EXCEPT
                           !.failed = @ \cup {"synthesize"},
                           !.tts_ret = "raised"])
    /\ UNCHANGED <<ui_vars, label>>

tts_volc(t) ==
    \/ tts_post(t)
    \/ tts_line(t)
    \/ tts_save(t)
    \/ tts_finally(t)

\* out = tts_volc(spoken); update("Preparing voice..."), or the exception
\* of tts_volc propagates
pi_synthesized(t) ==
    /\ t \in Threads
    /\ thr[t].pc \in {"tts_ret", "tts_exc"}
    /\ IF thr[t].pc = "tts_ret"
       THEN Step(t, [thr[t] EXCEPT !.pc = "post"], {}, {}, {}, <<Preparing>>)
       ELSE Step(t, Leave, {}, {}, {}, <<>>)

\* finally: done() -> self.processing = False
done_flag(t) ==
    /\ t \in Threads
    /\ thr[t].pc = "finally"
    /\ processing' = FALSE
    /\ thr' = [thr EXCEPT ![t].pc = "done_update"]
    /\ UNCHANGED <<space, focus, entry, config, label, recording, stream, data,
                   observe, clock, cur_log, hist>>

\* done() -> self.update("Press SPACE to speak or type below.")
done_update(t) ==
    /\ t \in Threads
    /\ thr[t].pc = "done_update"
    /\ Step(t, [thr[t] EXCEPT !.pc = "exit"], {}, {}, {}, <<Ready>>)

\* the thread ends
thread_exit(t) ==
    /\ t \in Threads
    /\ thr[t].pc = "exit"
    /\ thr' = [thr EXCEPT ![t] = NoThread]
    /\ hist' = [hist EXCEPT ![t] = NoHist]
    /\ UNCHANGED <<ui_vars, label>>

process_interaction(t) ==
    \/ pi_start(t)
    \/ recognize_speech_volc_ws(t)
    \/ pi_recognized(t)
    \/ pi_check(t)
    \/ pi_generate(t)
    \/ pi_tts(t)
    \/ pi_postprocess(t)
    \/ pi_play(t)
    \/ done_flag(t)
    \/ done_update(t)

\* ------------------------------------------------------------------------
\* load_user_config() at start-up finds no file (config stays without
\* attributes) or a file saved earlier.
InitApp ==
    /\ InitUi
    /\ config \in {"absent", "empty", "set"}

Next ==
    \/ focus_entry
    \/ type_text
    \/ save
    \/ cb
    \/ down
    \/ up
    \/ send_text
    \/ \E t \in Slots : process_interaction(t)
    \/ \E t \in Slots : thread_exit(t)

\* Spec: the application, with up to MaxThreads pipeline threads alive.
Init ==
    /\ InitApp
    /\ observe = FALSE
    /\ thr = [t \in Slots |-> NoThread]
    /\ hist = [t \in Slots |-> NoHist]

Spec == Init /\ [][Next]_vars

\* SpecSession: the application with the sessions observed one at a time:
\* one thread slot, and the histories kept.
InitSession ==
    /\ InitApp
    /\ observe = TRUE
    /\ thr = <<NoThread>>
    /\ hist = <<NoHist>>

SpecSession == InitSession /\ [][Next]_vars

\* SpecSessionFair: the scheduler runs every thread that can take a step.
SpecSessionFair ==
    SpecSession /\ \A t \in Slots : WF_vars(process_interaction(t))

\* SpecTyped: the application from the moment the user has typed a text of
\* up to MaxEntryLen characters into the entry, the sessions observed one at
\* a time.
Entries == UNION {[1..n -> Chars] : n \in 0..MaxEntryLen}

InitTyped ==
    /\ processing = FALSE
    /\ space = FALSE
    /\ focus = TRUE
    /\ entry \in Entries
    /\ label = Status(ReadyPrompt, FALSE)
    /\ recording = FALSE
    /\ stream = "none"
    /\ data = <<>>
    /\ cur_log = <<>>
    /\ clock = 0
    /\ config \in {"absent", "set"}
    /\ observe = TRUE
    /\ thr = <<NoThread>>
    /\ hist = <<NoHist>>

NextTyped ==
    \/ focus_entry
    \/ cb
    \/ down
    \/ up
    \/ send_text
    \/ \E t \in Slots : process_interaction(t)
    \/ \E t \in Slots : thread_exit(t)

SpecTyped == InitTyped /\ [][NextTyped]_vars

\* SpecTts: one session from its call tts_volc(spoken) on, for every
\* response of the bounded set.
InitTts ==
    /\ processing = TRUE
    /\ space = FALSE
    /\ focus = FALSE
    /\ entry = <<>>
    /\ label = Status(Str(<<"a">>), FALSE)
    /\ recording = FALSE
    /\ stream = "none"
    /\ data = <<>>
    /\ cur_log = <<>>
    /\ clock = 0
    /\ config \in {"absent", "set"}
    /\ observe = TRUE
    /\ \E response \in Responses : thr = <<TtsCall(response)>>
    /\ hist = <<[NoHist EXCEPT !.cfg0 = config, !.text_input = Str(<<"a">>)]>>

NextTts ==
    \E t \in Slots :
        \/ tts_volc(t)
        \/ pi_synthesized(t)
        \/ pi_postprocess(t)
        \/ pi_play(t)
        \/ done_flag(t)
        \/ done_update(t)

SpecTts == InitTts /\ [][NextTts]_vars

\* SpecTtsFair: the scheduler runs the thread whenever it can take a step.
SpecTtsFair == SpecTts /\ WF_vars(NextTts)

\* ------------------------------------------------------------------------
\* volc_tts_sign(method, path, body, access_key, secret_key, service="tts"),
\* statement by statement, while the clock runs

\* now.strftime("%Y%m%dT%H%M%SZ") and now.strftime("%Y%m%d")
strftime_x_date(now) == [ymd |-> now \div DaySecs, hms |-> now % DaySecs]
strftime_date(now) == now \div DaySecs

LastSecond == (MaxDay + 1) * DaySecs - 1

\* a second passes
tick ==
    /\ clock < LastSecond
    /\ clock' = clock + 1
    /\ UNCHANGED <<processing, space, focus, entry, config, label, recording,
                   stream, data, thr, observe, cur_log, hist>>

SignCall(access_key, secret_key, body) ==
    [NoThread EXCEPT !.pc = "sign_now",
                     !.sign = [NoSign EXCEPT !.access_key = access_key,
                                             !.secret_key = secret_key,
                                             !.body = body]]

\* now = datetime.utcnow()
sign_now(t) ==
    /\ t \in Threads
    /\ thr[t].pc = "sign_now"
    /\ thr' = [thr EXCEPT ![t].sign.now = clock, ![t].pc = "sign_format"]
    /\ UNCHANGED <<ui_vars, label, hist>>

\* x_date = now.strftime("%Y%m%dT%H%M%SZ")
sign_format(t) ==
    /\ t \in Threads
    /\ thr[t].pc = "sign_format"
    /\ thr' = [thr EXCEPT ![t].sign.x_date = strftime_x_date(thr[t].sign.now),
                          ![t].pc = "sign_date"]
    /\ UNCHANGED <<ui_vars, label, hist>>

\* Faulty variant of sign_date: the date is taken from a second reading of the clock.
sign_date_reread(t) ==
    /\ t \in Threads
    /\ thr[t].pc = "sign_date"
    /\ thr' = [thr EXCEPT ![t].sign.date = strftime_date(clock),
                          ![t].pc = "sign_canonical"]
    /\ UNCHANGED <<ui_vars, label, hist>>

\* date = now.strftime("%Y%m%d")
sign_date(t) ==
    /\ t \in Threads
    /\ thr[t].pc = "sign_date"
    /\ thr' = [thr EXCEPT ![t].sign.date = strftime_date(thr[t].sign.now),
                          ![t].pc = "sign_canonical"]
    /\ UNCHANGED <<ui_vars, label, hist>>

\* body_hash = ...; canonical_request = "\n".join([..., "host:...\nx-date:" + x_date, ...])
sign_canonical(t) ==
    /\ t \in Threads
    /\ thr[t].pc = "sign_canonical"
    /\ thr' = [thr EXCEPT ![t].sign.canonical_request = thr[t].sign.x_date,
                          ![t].pc = "sign_string"]
    /\ UNCHANGED <<ui_vars, label, hist>>

\* credential_scope = f"{date}/{service}/request"
\* string_to_sign = "\n".join([algorithm, x_date, credential_scope, sha256(canonical_request)])
sign_string(t) ==
    /\ t \in Threads
    /\ thr[t].pc = "sign_string"
    /\ thr' = [thr EXCEPT ![t].sign.credential_scope = thr[t].sign.date,
                          ![t].sign.string_to_sign = thr[t].sign.x_date,
                          ![t].pc = "sign_keys"]
    /\ UNCHANGED <<ui_vars, label, hist>>

\* k_date = hmac_sha256(("HMAC-SHA256" + secret_key).encode(), date); k_service; k_signing; signature
sign_keys(t) ==
    /\ t \in Threads
    /\ thr[t].pc = "sign_keys"
    /\ thr' = [thr EXCEPT ![t].sign.k_date = thr[t].sign.date,
                          ![t].pc = "sign_return"]
    /\ UNCHANGED <<ui_vars, label, hist>>

\* authorization = ...; return authorization, x_date
sign_return(t) ==
    /\ t \in Threads
    /\ thr[t].pc = "sign_return"
    /\ thr' = [thr EXCEPT ![t].sign.ret = thr[t].sign.x_date,
                          ![t].pc = "sign_ret"]
    /\ UNCHANGED <<ui_vars, label, hist>>

volc_tts_sign(t) ==
    \/ sign_now(t)
    \/ sign_format(t)
    \/ sign_date(t)
    \/ sign_canonical(t)
    \/ sign_string(t)
    \/ sign_keys(t)
    \/ sign_return(t)

\* SpecSign: one call of volc_tts_sign at any time of the clock, which runs
\* on while the call does.
Keys == {"k1", "k2"}
InitSign ==
    /\ processing = FALSE
    /\ space = FALSE
    /\ focus = FALSE
    /\ entry = <<>>
    /\ label = Status(ReadyPrompt, FALSE)
    /\ recording = FALSE
    /\ stream = "none"
    /\ data = <<>>
    /\ cur_log = <<>>
    /\ config = "set"
    /\ observe = FALSE
    /\ clock \in 0..LastSecond
    /\ \E ak \in Keys, sk \in Keys : thr = <<SignCall(ak, sk, "")>>
    /\ hist = <<NoHist>>

NextSign ==
    \/ tick
    \/ \E t \in Slots : volc_tts_sign(t)

SpecSign == InitSign /\ [][NextSign]_vars

\* ------------------------------------------------------------------------
\* _pack_asr, byte by byte

RECURSIVE BitOr(_, _)
\* a | b on non-negative integers
BitOr(a, b) ==
    IF a = 0 THEN b
    ELSE IF b = 0 THEN a
    ELSE (IF a % 2 = 1 \/ b % 2 = 1 THEN 1 ELSE 0) + 2 * BitOr(a \div 2, b \div 2)

\* a << 4
Shl4(a) == a * 16

\* struct.pack(">I", n): 4 bytes, most significant first
struct_pack_I(n) ==
    <<n \div 16777216, (n \div 65536) % 256, (n \div 256) % 256, n % 256>>

\* Faulty variant of struct_pack_i: least significant byte first.
struct_pack_i_little(n) ==
    IF n >= 0
    THEN <<n % 256, (n \div 256) % 256, (n \div 65536) % 256, n \div 16777216>>
    ELSE [k \in 1..4 |->
            255 - <<(-(n + 1)) % 256, ((-(n + 1)) \div 256) % 256,
                    ((-(n + 1)) \div 65536) % 256, (-(n + 1)) \div 16777216>>[k]]

\* struct.pack(">i", n): two's complement, most significant byte first
struct_pack_i(n) ==
    IF n >= 0 THEN struct_pack_I(n)
    ELSE [k \in 1..4 |-> 255 - struct_pack_I(-(n + 1))[k]]

\* header + ext + struct.pack(">I", len(payload)) + payload, for the fields
\* f of a frame whose payload is a sequence of bytes
FrameBytes(f) ==
    <<BitOr(Shl4(f.version), f.header_words),
      BitOr(Shl4(f.msg_type), f.flags),
      16,
      0>>
    \o (IF f.seq # NoSeq THEN struct_pack_i(f.seq) ELSE <<>>)
    \o struct_pack_I(Len(f.payload))
    \o f.payload

\* bytes(...) takes values of 0..255 only (ValueError otherwise)
BytesOk(bs) == \A k \in 1..Len(bs) : bs[k] \in 0..255

\* A thread about to call _pack_asr(msg_type, flags, payload, seq).
PackCall(msg_type, flags, payload, seq) ==
    [NoThread EXCEPT !.pc = "pack",
                     !.frame = [NoPack EXCEPT !.msg_type = msg_type,
                                              !.flags = flags,
                                              !.payload = payload,
                                              !.seq = seq]]

\* return header + ext + struct.pack(">I", len(payload)) + payload
pack_return(t) ==
    /\ t \in Threads
    /\ thr[t].pc = "pack"
    /\ LET c == thr[t].frame
           bs == FrameBytes(pack_asr(c.msg_type, c.flags, c.payload, c.seq))
       IN thr' = [thr EXCEPT ![t].frame.ret = bs,
                             ![t].pc = IF BytesOk(bs) THEN "pack_ret" ELSE "pack_exc"]
    /\ UNCHANGED <<ui_vars, label, hist>>

\* SpecFrame: one call of _pack_asr on every frame of the bounded sets.
Nibbles == {0, 1, 2, 3, 15}
SeqVals == {NoSeq, -2147483646, -257, -256, -2, -1, 0, 1, 2, 255, 256, 2147483647}
PayloadBytes == {0, 1, 255}
Payloads == UNION {[1..n -> PayloadBytes] : n \in 0..MaxPayload}

InitFrame ==
    /\ InitUi
    /\ config = "set"
    /\ observe = FALSE
    /\ \E msg_type \in Nibbles, flags \in Nibbles, seq \in SeqVals,
          payload \in Payloads :
         thr = <<PackCall(msg_type, flags, payload, seq)>>
    /\ hist = <<NoHist>>

NextFrame == \E t \in Slots : pack_return(t)

SpecFrame == InitFrame /\ [][NextFrame]_vars

\* ------------------------------------------------------------------------
\* generate_prayer_audio.py: run_interactive_mode and the stages it calls.
\* thr[t] holds the locals of the loop: text_input is user_input, spoken is
\* gospel_text; hist[t].stages, hist[t].net and hist[t].failed are those of
\* the iteration that is running, or of the last one when the loop is at
\* input() again.

\* str.lower(), for the letters of the inputs below
Lower(c) ==
    CASE c = "Q" -> "q"
      [] c = "U" -> "u"
      [] c = "I" -> "i"
      [] c = "T" -> "t"
      [] c = "E" -> "e"
      [] c = "X" -> "x"
      [] OTHER -> c
lower(s) == [k \in 1..Len(s) |-> Lower(s[k])]

\* ('q', 'quit', 'exit')
QuitCommands == {<<"q">>, <<"q", "u", "i", "t">>, <<"e", "x", "i", "t">>}

\* what the user may type at the prompt
CliInputs ==
    {<<>>, <<" ">>, <<"a">>, <<" ", "a">>,
     <<"q">>, <<"Q">>, <<"q", " ">>, <<"q", "u", "i">>,
     <<"q", "u", "i", "t">>, <<"Q", "U", "I", "T">>,
     <<"e", "x", "i", "t">>, <<"E", "x", "i", "t">>}

\* What the statements of the try block raise: Ctrl-C at any of them, and
\* the errors of the stages (all of them subclasses of Exception).
StageErrors == {"EOFError", "AttributeError", "HTTPError", "RuntimeError",
                "CouldntDecodeError", "CalledProcessError"}
IsException(e) == e \in StageErrors

\* Faulty variant of Handle: only the error the synthesis stage raises itself is caught.
Handle_narrow(e) ==
    IF e = "KeyboardInterrupt" THEN "break"
    ELSE IF e = "RuntimeError" THEN "continue"
    ELSE "propagate"

\* except KeyboardInterrupt: print("\nGoodbye."); break
\* except Exception as e: print(f"Error: {e}")
Handle(e) ==
    IF e = "KeyboardInterrupt" THEN "break"
    ELSE IF IsException(e) THEN "continue"
    ELSE "propagate"

\* The loop about to call input() for the first time.
CliCall == [NoThread EXCEPT !.pc = "cli_input"]

\* Thread t goes on as r in the current iteration, having run the stages
\* `stages` and sent requests to `net`.
CliStep(t, r, stages, net) ==
    /\ thr' = [thr EXCEPT ![t] = r]
    /\ hist' = Record(t, [hist[t] EXCEPT !.stages = @ \cup stages,
                                         !.net = @ \cup net])
    /\ UNCHANGED <<ui_vars, label>>

\* The statement of `stage` raised e inside the try block of the loop.
CliRaise(t, stage, e, net) ==
    LET h == Handle(e) IN
    /\ thr' = [thr EXCEPT ![t].pc = IF h = "break" THEN "cli_interrupt"
                                    ELSE IF h = "continue" THEN "cli_input"
                                    ELSE "cli_crash"]
    /\ hist' = Record(t, [hist[t] EXCEPT
                   !.stages = @ \cup {stage},
                   !.net = @ \cup net,
                   !.failed = IF e = "KeyboardInterrupt" THEN @ ELSE @ \cup {stage},
                   !.errors = IF h = "continue" THEN @ + 1 ELSE @])
    /\ UNCHANGED <<ui_vars, label>>

\* user_input = input("\n> "): a line, Ctrl-C, or the end of the input
\* if user_input.lower() in ('q', 'quit', 'exit'): break
\* if not user_input.strip(): continue
cli_input(t) ==
    /\ t \in Threads
    /\ thr[t].pc = "cli_input"
    /\ hist[t].inputs < MaxInputs
    /\ \/ \E e \in {"KeyboardInterrupt", "EOFError"} :
            /\ thr' = [thr EXCEPT ![t].pc = IF Handle(e) = "break" THEN "cli_interrupt"
                                            ELSE IF Handle(e) = "continue" THEN "cli_input"
                                            ELSE "cli_crash"]
            /\ hist' = Record(t, [hist[t] EXCEPT
                           !.inputs = @ + 1,
                           !.stages = {},
                           !.net = {},
                           !.failed = IF e = "EOFError" THEN {"input"} ELSE {}])
       \/ \E user_input \in CliInputs :
            /\ thr' = [thr EXCEPT
                  ![t].text_input = Str(user_input),
                  ![t].spoken = None,
                  ![t].pc = IF lower(user_input) \in QuitCommands THEN "cli_quit"
                            ELSE IF strip(user_input) = <<>> THEN "cli_input"
                            ELSE "cli_gen"]
            /\ hist' = Record(t, [hist[t] EXCEPT !.inputs = @ + 1,
                                                 !.stages = {},
                                                 !.net = {},
                                                 !.failed = {}])
    /\ UNCHANGED <<ui_vars, label>>

\* gospel_text = generate_gospel_text(user_input).  Without a GEMINI_API_KEY
\* it returns user_input; what the request raises is caught inside
\* (`except Exception`) and user_input is returned, as it is when the
\* response has no text; otherwise response.text.strip() is.  Ctrl-C is
\* no Exception and leaves the function.
generate_gospel_text(t) ==
    /\ t \in Threads
    /\ thr[t].pc = "cli_gen"
    /\ LET fallback == [thr[t] EXCEPT !.spoken = thr[t].text_input, !.pc = "cli_tts"] IN
       IF config # "set"
       THEN CliStep(t, fallback, {"generate"}, {})
       ELSE \/ CliRaise(t, "generate", "KeyboardInterrupt", {"llm"})
            \/ /\ thr' = [thr EXCEPT ![t] = fallback]
               /\ hist' = Record(t, [hist[t] EXCEPT !.stages = @ \cup {"generate"},
                                                    !.net = @ \cup {"llm"},
                                                    !.failed = @ \cup {"generate"}])
               /\ UNCHANGED <<ui_vars, label>>
            \/ \E s \in Texts :
                 CliStep(t, IF s = <<>> THEN fallback
                            ELSE [thr[t] EXCEPT !.spoken = Str(strip(s)), !.pc = "cli_tts"],
                         {"generate"}, {"llm"})

\* generate_volc_tts(text, raw_audio): the payload reads config (AttributeError
\* when an attribute is missing); requests.post(..., timeout=30),
\* raise_for_status and the "data" test raise, or the file is written.
generate_volc_tts(t) ==
    /\ t \in Threads
    /\ thr[t].pc = "cli_tts"
    /\ IF config = "absent"
       THEN CliRaise(t, "synthesize", "AttributeError", {})
       ELSE \/ \E e \in {"KeyboardInterrupt", "HTTPError", "RuntimeError"} :
                 CliRaise(t, "synthesize", e, {"tts"})
            \/ CliStep(t, [thr[t] EXCEPT !.out = "file", !.pc = "cli_pad"],
                       {"synthesize"}, {"tts"})

\* add_silence(raw_audio, padded_audio): AudioSegment.from_file and export
\* raise when the audio cannot be decoded or written
add_silence(t) ==
    /\ t \in Threads
    /\ thr[t].pc = "cli_pad"
    /\ \/ \E e \in {"KeyboardInterrupt", "CouldntDecodeError"} :
            CliRaise(t, "pad", e, {})
       \/ CliStep(t, [thr[t] EXCEPT !.pc = "cli_post"], {"pad"}, {})

\* post_process(padded_audio, final_audio): subprocess.run(cmd, check=True);
\* then generate_prayer_audio returns and the loop goes round
post_process(t) ==
    /\ t \in Threads
    /\ thr[t].pc = "cli_post"
    /\ \/ \E e \in {"KeyboardInterrupt", "CalledProcessError"} :
            CliRaise(t, "postprocess", e, {})
       \/ CliStep(t, [thr[t] EXCEPT !.pc = "cli_input"], {"postprocess", "done"}, {})

generate_prayer_audio(t) ==
    \/ generate_volc_tts(t)
    \/ add_silence(t)
    \/ post_process(t)

run_interactive_mode(t) ==
    \/ cli_input(t)
    \/ generate_gospel_text(t)
    \/ generate_prayer_audio(t)

\* SpecCli: the script started without arguments, with the config module as
\* it is found (no key, empty keys, keys set).
InitCli ==
    /\ InitUi
    /\ config \in {"absent", "empty", "set"}
    /\ observe = TRUE
    /\ thr = <<CliCall>>
    /\ hist = <<NoHist>>

NextCli == \E t \in Slots : run_interactive_mode(t)

SpecCli == InitCli /\ [][NextCli]_vars

\* ========================================================================
\* Claims
\* ========================================================================

\* the sessions that exist, and those among them that began with a capture
Sessions == {t \in Threads : hist[t].cfg0 # "none"}
Spoken == {t \in Sessions : ~Truthy(hist[t].text_input)}
LaterStages == {"generate", "synthesize", "postprocess", "play"}

\* C1: over every interleaving of the UI events and the thread steps, at
\* most one pipeline (a thread running process_interaction) executes at any
\* time.  Violated: up does not test processing, so a send_text between
\* down and up starts one pipeline and up starts another.
C1_AtMostOnePipeline == Cardinality(Running) <= 1

\* C2: whenever the in-flight flag is set it is cleared again, whichever
\* stage fails.  Violated: up sets processing before AudioHandler.stop, and
\* when stop raises no thread is started, so nothing ever calls done().
C2_FlagCleared == processing ~> ~processing

\* C3: a session that captured speech and whose recognition returned no
\* transcript (None or the empty string) shows exactly: listening (capture),
\* listening (transcribing), could-not-hear, ready; and enters no stage
\* after recognition.  Violated: a whitespace-only partial result is shown
\* as an interim status before recognition returns the empty string.
C3_NoTranscriptStatuses ==
    \A t \in Spoken :
        hist[t].ret \in {None, Str(<<>>)} =>
            /\ hist[t].stages = {"recognize"}
            /\ thr[t].pc = "exit" =>
                 hist[t].log = <<Listening, Listening, CouldNotHear, Ready>>

\* C4: a session whose capture yielded no audio (AudioHandler.stop returned
\* None) opens no recognition connection, runs no later stage and ends with
\* the statuses listening, nothing-heard, ready.  Violated: the session
\* calls recognize_speech_volc_ws(None), which connects before it reads the
\* file.
C4_NothingHeard ==
    \A t \in Spoken :
        hist[t].audio_path = NoPath =>
            /\ hist[t].attempts = 0
            /\ hist[t].wire = <<>>
            /\ hist[t].stages \cap LaterStages = {}
            /\ thr[t].pc = "exit" => hist[t].log = <<Listening, CouldNotHear, Ready>>

\* C5: when text generation is unavailable or raises in a session that has
\* its text, the session goes on to synthesis with that text as the spoken
\* text.  Violated: process_interaction has no fallback, the exception ends
\* the session.
C5_GenerationFallback ==
    \A t \in Sessions :
        "generate" \in hist[t].failed =>
            \/ thr[t].pc = "tts" /\ thr[t].spoken = thr[t].user_text
            \/ "synthesize" \in hist[t].stages

\* C6: a session that begins while a credential is missing or empty makes
\* no network call.  Violated: nothing checks the credentials; with an empty
\* credential the session connects to the recognition service.
C6_NoCallWithoutCredentials ==
    \A t \in Sessions :
        hist[t].cfg0 \in {"absent", "empty"} =>
            hist[t].net = {} /\ hist[t].attempts = 0

IsConfig(e) ==
    /\ e.ev = "frame"
    /\ e.f.msg_type = 1 /\ e.f.flags = 0
    /\ e.f.seq = NoSeq /\ e.f.header_words = 1
IsAudio(e) == e.ev = "frame" /\ e.f.msg_type = 2 /\ e.f.flags = 1
IsTerm(e) ==
    /\ e.ev = "frame"
    /\ e.f.msg_type = 2 /\ e.f.flags = 3
    /\ e.f.payload = EmptyPayload

\* C7: on every recognition connection the audio frames carry the sequence
\* numbers 1, 2, ..., n in this order and the terminating frame carries
\* -(n + 1), n being the number of audio frames sent (-1 for no frame).
C7_Sequence ==
    \A t \in Threads :
        LET audio == SelectSeq(hist[t].wire, IsAudio)
            term == SelectSeq(hist[t].wire, IsTerm)
        IN /\ \A k \in 1..Len(audio) : audio[k].f.seq = k
           /\ \A k \in 1..Len(term) : term[k].f.seq = -(Len(audio) + 1)

C7_Witness ==
    \E t \in Threads :
        /\ Len(SelectSeq(hist[t].wire, IsAudio)) >= 2
        /\ Len(SelectSeq(hist[t].wire, IsTerm)) = 1

\* C8: the events of every recognition connection are, in this order:
\* connect, one config frame (type 1, no sequence field), audio frames
\* (type 2, flags 1), one terminating frame (type 2, flags 3, empty
\* payload), close.  No audio frame precedes the config frame or follows the
\* terminating frame, nothing follows close, and a call that returns has
\* gone through all of it.
C8_Order ==
    \A t \in Threads :
        LET w == hist[t].wire IN
        /\ \A k \in 1..Len(w) :
             /\ (k = 1) <=> (w[k] = Connected)
             /\ (k = 2) <=> IsConfig(w[k])
             /\ k >= 3 => IsAudio(w[k]) \/ IsTerm(w[k]) \/ w[k] = Closed
             /\ IsAudio(w[k]) \/ IsTerm(w[k]) =>
                  k >= 3 /\ (IsConfig(w[k - 1]) \/ IsAudio(w[k - 1]))
             /\ w[k] = Closed => k >= 3 /\ IsTerm(w[k - 1]) /\ k = Len(w)
        /\ thr[t].pc = "asr_ret" => w # <<>> /\ w[Len(w)] = Closed

C8_Witness ==
    \E t \in Threads :
        /\ thr[t].pc = "asr_ret"
        /\ Len(SelectSeq(hist[t].wire, IsAudio)) >= 2
        /\ hist[t].wire[Len(hist[t].wire)] = Closed

\* A partial-result message as the service sends it: a JSON object whose
\* text fields, where present, are strings.
WellFormed(msg) ==
    /\ msg.kind = "json"
    /\ msg.top.t \in {"str", "absent"}
    /\ msg.res \in {"absent", "dict"}
    /\ msg.rtext.t \in {"str", "absent"}

\* C9: a receive timeout, a receive error or a malformed message after a
\* chunk leaves the transcript and the sequence counter as they were and
\* the call goes on with the next chunk.  Violated: a message whose text is
\* truthy and no string overwrites the transcript (and makes the return
\* statement raise).
C9_ReceiveFailureHarmless ==
    [][\A t \in Slots : \A msg \in Msgs :
          ~WellFormed(msg) /\ recv(t, msg) =>
              /\ thr'[t].asr.final_text = thr[t].asr.final_text
              /\ thr'[t].asr.seq = thr[t].asr.seq
              /\ thr'[t].pc = "asr_loop"]_vars

\* the last non-empty text among the messages received (Absent: none)
RECURSIVE LastTranscript(_)
LastTranscript(msgs) ==
    IF msgs = <<>> THEN Absent
    ELSE LET got == ExtractText(msgs[Len(msgs)]) IN
         IF ~got.raised /\ Truthy(got.text) THEN got.text
         ELSE LastTranscript(SubSeq(msgs, 1, Len(msgs) - 1))

\* the recognition calls that got to their return statement
Returning == {t \in Threads : hist[t].wire # <<>> /\ hist[t].wire[Len(hist[t].wire)] = Closed}

\* C10: a call that gets to its return statement returns the last non-empty
\* transcript observed, and None when there was none; it does not raise.
\* Violated: a truthy text that is no string (C9) becomes final_text and
\* final_text.strip() raises; and the value returned is stripped, so a
\* whitespace-only transcript comes back as the empty string.
C10_ReturnsLastTranscript ==
    \A t \in Returning :
        hist[t].ret = Get(LastTranscript(hist[t].msgs))

\* the sessions whose create_connection call was made and raised
ConnectFailed(t) ==
    /\ t \in Sessions
    /\ hist[t].attempts >= 1
    /\ hist[t].wire = <<>>
    /\ thr[t].pc # "asr_connect"

\* C11: when opening the recognition connection fails the interaction is
\* aborted: one connection attempt, no frame, no stage after recognition,
\* and the thread goes on to done(), which clears the flag and shows the
\* ready status.
C11_ConnectFailureAborts ==
    /\ [](\A t \in Threads :
            ConnectFailed(t) =>
                /\ hist[t].attempts = 1
                /\ hist[t].stages = {"recognize"}
                /\ thr[t].pc \in {"asr_exc", "finally", "done_update", "exit"}
                /\ thr[t].pc = "exit" =>
                     hist[t].log = <<Listening, Listening, Ready>>)
    /\ \A t \in Slots :
         (ConnectFailed(t) /\ thr[t].pc = "asr_exc")
             ~> (t \in Threads /\ thr[t].pc = "done_update" /\ ~processing)

C11_Witness ==
    \E t \in Threads :
        /\ ConnectFailed(t)
        /\ thr[t].pc = "exit"
        /\ "recognize" \in hist[t].failed

\* ---- the synthesis stream, in the words of the claims
IsDataLine(l) == l.kind = "json" /\ l.code = 0 /\ l.data
IsTerminalLine(l) == l.kind = "json" /\ l.code > 0
IsSentenceLine(l) == l.kind = "json" /\ l.code = 0 /\ l.sentence /\ ~l.data
IsMalformed(l) == l.kind \in {"blank", "garbage"}

\* the position of the first terminal line of r (Len(r) + 1: none)
FirstTerminal(r) ==
    IF \E k \in 1..Len(r) : IsTerminalLine(r[k])
    THEN CHOOSE k \in 1..Len(r) :
             /\ IsTerminalLine(r[k])
             /\ \A j \in 1..(k - 1) : ~IsTerminalLine(r[j])
    ELSE Len(r) + 1

\* the audio of the data lines among the first n lines of r, in order
DataBefore(r, n) ==
    LET m == IF n < Len(r) THEN n ELSE Len(r)
        IsData(k) == IsDataLine(r[k])
    IN SelectSeq([k \in 1..m |-> k], IsData)

\* the synthesis calls that are over
TtsEnded == {t \in Threads : hist[t].tts_ret # "none"}

\* C12: for a response of data lines, terminal lines and blank or
\* unparseable lines, the audio persisted is that of all the data lines before
\* the terminal line, in order.  Violated: json.loads raises on an
\* unparseable line, inside the try block whose except clause is after the
\* loop and the save: the stream is aborted and nothing is persisted.
C12_MalformedLinesSkipped ==
    \A t \in TtsEnded :
        LET r == hist[t].response IN
        (\A k \in 1..Len(r) : r[k].kind # "drop") =>
            hist[t].file.audio = DataBefore(r, FirstTerminal(r) - 1)

C14_EmptyAudioFails ==
    \A t \in TtsEnded :
        ~hist[t].file.written =>
            /\ hist[t].tts_ret = "raised"
            /\ "postprocess" \notin hist[t].stages

\* C15: the parser consumes no line after the first terminal line (a line
\* with a code > 0), so no data line after it is appended; the success code
\* ends the loop as success and any other code > 0 as error; and the
\* accumulator holds the audio of the data lines consumed, in order, and of
\* no other line (a sentence line adds nothing).
C15_StopsAtTerminal ==
    \A t \in Threads :
        LET r == hist[t].response
            n == hist[t].consumed
        IN /\ n <= Len(r) /\ n <= FirstTerminal(r)
           /\ thr[t].pc \in {"tts_lines", "tts_save"} =>
                thr[t].tts.audio_data = DataBefore(r, n)
           /\ hist[t].file.written => hist[t].file.audio = DataBefore(r, n)
           /\ hist[t].terminal = "usage" <=>
                n >= 1 /\ r[n].kind = "json" /\ r[n].code = SUCCESS_CODE
           /\ hist[t].terminal = "error" <=>
                n >= 1 /\ r[n].kind = "json" /\ r[n].code > 0
                       /\ r[n].code # SUCCESS_CODE
           /\ (thr[t].pc = "tts_lines" /\ n >= 1) => ~IsTerminalLine(r[n])

C15_Witness ==
    \E t \in Threads :
        LET r == hist[t].response IN
        /\ Len(r) = 3
        /\ IsDataLine(r[1]) /\ r[2].code = SUCCESS_CODE /\ r[2].data
        /\ IsDataLine(r[3])
        /\ hist[t].terminal = "usage"
        /\ hist[t].file = File(<<1>>)
        /\ hist[t].tts_ret = "path"

\* C16: when a synthesis request was made and the call is over, the session
\* is closed, and so is the response if there was one, and the call has
\* returned.  Violated: when session.post raises, `response` is unbound in
\* the finally clause: response.close() raises UnboundLocalError, which
\* leaves tts_http_stream, and session.close() is never reached.
C16_AlwaysReleased ==
    \A t \in TtsEnded :
        "tts" \in hist[t].net =>
            /\ "session" \in hist[t].released
            /\ hist[t].tts_ret = "path"

\* the recognition calls that are over
AsrEnded == {t \in Threads : thr[t].pc \in {"asr_ret", "asr_exc"}}

\* C17: a recognition connection that was opened is closed when the call
\* ends, however it ends.  Violated: the function has no try/finally; when
\* wav.read or a send_binary raises, ws.close() is never reached.
C17_ConnectionClosed ==
    \A t \in AsrEnded :
        hist[t].wire # <<>> => hist[t].wire[Len(hist[t].wire)] = Closed

\* C18: a session in flight whose synthesis request is made ends, and the
\* flag is cleared, even when the server never answers.  Violated:
\* session.post is called without a timeout, so the thread waits for ever.
C18_TimeoutClearsFlag == <>(~processing)

\* C19: a call of volc_tts_sign that has returned used one timestamp: the
\* x_date it returned is the one in the canonical request and in the string
\* to sign, and the date of the credential scope and of the key derivation
\* is the first 8 characters of it, whatever the clock did meanwhile.
C19_OneTimestamp ==
    \A t \in Threads :
        thr[t].pc = "sign_ret" =>
            LET c == thr[t].sign IN
            /\ c.ret = strftime_x_date(c.now)
            /\ c.canonical_request = c.ret
            /\ c.string_to_sign = c.ret
            /\ c.credential_scope = c.ret.ymd
            /\ c.k_date = c.ret.ymd

\* the call returned on a later day than it began
C19_Witness ==
    \E t \in Threads :
        /\ thr[t].pc = "sign_ret"
        /\ strftime_date(clock) > strftime_date(thr[t].sign.now)
        /\ clock > thr[t].sign.now + 1

\* ---- the frame layout, read back
\* 4 bytes, most significant first, as an unsigned and as a signed number
\* (the signed value of a pattern with the top bit set is its complement's
\* negative, less one)
Unsigned32(b) == ((b[1] * 256 + b[2]) * 256 + b[3]) * 256 + b[4]
Signed32(b) ==
    IF b[1] < 128 THEN Unsigned32(b)
    ELSE -Unsigned32([k \in 1..4 |-> 255 - b[k]]) - 1

\* The fields of the frame that the bytes bs hold: version and header length
\* nibbles, type and flags nibbles, marker byte, zero byte, the sequence if
\* the header length is 2, the payload length and the payload.
Decode(bs) ==
    LET words == bs[1] % 16
        at == IF words = 2 THEN 8 ELSE 4
        n == Unsigned32(SubSeq(bs, at + 1, at + 4))
    IN [version |-> bs[1] \div 16,
        header_words |-> words,
        msg_type |-> bs[2] \div 16,
        flags |-> bs[2] % 16,
        marker |-> bs[3],
        zero |-> bs[4],
        seq |-> IF words = 2 THEN Signed32(SubSeq(bs, 5, 8)) ELSE NoSeq,
        length |-> n,
        payload |-> SubSeq(bs, at + 5, Len(bs))]

\* C20: the bytes _pack_asr returns, decoded by the frame layout, give back
\* the type, the flags, the sequence (or its absence) and the payload, with
\* version 1, header length 1 without a sequence and 2 with one, the marker
\* byte and the zero byte, and the payload length.
C20_RoundTrip ==
    \A t \in Threads :
        thr[t].pc # "pack" /\ thr[t].frame # NoPack =>
            LET c == thr[t].frame
                d == Decode(c.ret)
            IN /\ thr[t].pc = "pack_ret"
               /\ d.version = 1
               /\ d.header_words = IF c.seq = NoSeq THEN 1 ELSE 2
               /\ d.msg_type = c.msg_type
               /\ d.flags = c.flags
               /\ d.marker = 16 /\ d.zero = 0
               /\ d.seq = c.seq
               /\ d.length = Len(c.payload)
               /\ d.payload = c.payload

C20_Witness ==
    \E t \in Threads :
        /\ thr[t].pc = "pack_ret"
        /\ thr[t].frame.seq = -257
        /\ thr[t].frame.payload = <<>>
        /\ thr[t].frame.ret = <<18, 35, 16, 0, 255, 255, 254, 255, 0, 0, 0, 0>>

\* the sessions that began with a typed text
Typed == {t \in Sessions : Truthy(hist[t].text_input)}

\* send_text starts the thread of slot t
Submits(t) ==
    thr[t].pc = "none" /\ thr'[t].pc = "start" /\ thr'[t].text_input # None

\* C21: a session that began with a typed text opens no recognition
\* connection, sends no frame and enters no recognition stage, and the text
\* it hands to text generation is the stripped content of the entry at the
\* moment of the submission; a submission whose stripped text is empty, or
\* one made while the flag is set, starts no thread and leaves the flag as it
\* was (outside App.up, which changes space, the flag is set only by a
\* submission of a non-empty stripped text that starts a thread).
C21_TypedSkipsRecognition ==
    /\ [](\A t \in Typed :
            /\ hist[t].attempts = 0
            /\ hist[t].wire = <<>>
            /\ hist[t].msgs = <<>>
            /\ "recognize" \notin hist[t].stages
            /\ "asr" \notin hist[t].net
            /\ hist[t].audio_path = NoPath
            /\ thr[t].pc \in {"check", "gen"} => thr[t].user_text = hist[t].text_input
            /\ "generate" \in hist[t].stages =>
                 Status(hist[t].text_input, FALSE) \in
                     {hist[t].log[k] : k \in 1..Len(hist[t].log)})
    /\ [][\A t \in Threads :
            /\ Submits(t) =>
                 /\ ~processing /\ processing'
                 /\ strip(entry) # <<>>
                 /\ thr'[t].text_input = Str(strip(entry))
                 /\ hist'[t].text_input = Str(strip(entry))
                 /\ entry' = <<>>
            /\ (~processing /\ processing' /\ space' = space) =>
                 strip(entry) # <<>> /\ \E u \in Threads : Submits(u)]_vars

\* a typed text was submitted and its session made the generation request
C21_Witness ==
    \E t \in Typed :
        /\ hist[t].text_input = Str(<<"a">>)
        /\ "generate" \in hist[t].stages
        /\ "llm" \in hist[t].net
        /\ entry = <<>>
        /\ processing

\* a capture begins: the key is taken as held, the recording is switched
\* on, the input stream is opened or the recorded buffer is cleared
CaptureBegins ==
    \/ ~space /\ space'
    \/ ~recording /\ recording'
    \/ stream # "open" /\ stream' = "open"
    \/ data # <<>> /\ data' = <<>>

\* C22: a press of the space key while the flag is set, while a capture is
\* running or while the entry has the focus starts no recording and leaves
\* the flag, the capture state and the recorded buffer as they were: a
\* capture begins only in a state with the flag clear, no capture running
\* and the focus outside the entry, and the step that begins it leaves the
\* flag clear and starts no thread.
C22_NoCaptureInFlight ==
    [][CaptureBegins =>
          /\ ~processing /\ ~space /\ ~focus
          /\ ~processing'
          /\ space' /\ recording' /\ data' = <<>>
          /\ thr' = thr]_vars

\* a session is in flight after a capture, with no key held and the focus
\* outside the entry: only the flag keeps a key press from starting a capture
C22_Witness ==
    /\ processing /\ ~space /\ ~focus /\ ~recording
    /\ stream = "closed"
    /\ data # <<>>
    /\ \E t \in Spoken : thr[t].pc = "gen"

\* the audio frames thread t has sent, and the number of bytes of a payload
AudioFrames(t) == SelectSeq(hist[t].wire, IsAudio)
Size(payload) == payload.hi - payload.lo

\* the recognition calls whose streaming loop is over
Streamed == {t \in Threads :
               \/ thr[t].pc \in {"asr_term", "asr_close"}
               \/ \E k \in 1..Len(hist[t].wire) : IsTerm(hist[t].wire[k])}

\* C23: the payloads of the audio frames are consecutive slices of the
\* utterance's PCM bytes, beginning at its first byte, and once the loop is
\* over they end at its last; none is empty, every one but possibly the last
\* has chunk bytes (200 ms of 16-bit mono audio at SAMPLE_RATE), and there
\* are ceil(len(pcm) / chunk) of them.
C23_ChunkingCovers ==
    \A t \in Threads :
        LET a == AudioFrames(t)
            n == thr[t].audio_path
            m == Len(a)
        IN /\ chunk * 1000 = 200 * 2 * SAMPLE_RATE
           /\ \A k \in 1..m :
                /\ a[k].f.payload.k = "bytes"
                /\ a[k].f.payload.lo = (IF k = 1 THEN 0 ELSE a[k - 1].f.payload.hi)
                /\ a[k].f.payload.hi <= n
                /\ Size(a[k].f.payload) > 0
                /\ k < m => Size(a[k].f.payload) = chunk
                /\ Size(a[k].f.payload) <= chunk
           /\ t \in Streamed =>
                /\ m = (n + chunk - 1) \div chunk
                /\ m = 0 => n = 0
                /\ m > 0 => a[m].f.payload.hi = n

\* a call returned after an utterance of two chunks, the second one short
C23_Witness ==
    \E t \in Threads :
        /\ thr[t].pc = "asr_ret"
        /\ thr[t].audio_path = 2 * chunk - 2
        /\ Len(AudioFrames(t)) = 2
        /\ Size(AudioFrames(t)[2].f.payload) = chunk - 2

\* C24: under every interleaving of done() with the UI thread, the status
\* shown is not the ready prompt while a pipeline executes that was accepted
\* after a finishing thread cleared the flag.  Violated: done() clears the
\* flag and then calls update(); between the two send_text is accepted,
\* shows "Thinking..." and starts its thread, and the update of the
\* finishing thread then puts the ready prompt over it.
C24_ReadyNeverOverwrites ==
    \A u \in Running :
        hist[u].after_clear => label # Ready

\* ---- the interactive loop, in the words of the claim
\* the loops, and the stages of one iteration in the order they are called
Loops == {t \in Threads :
            thr[t].pc \in {"cli_input", "cli_gen", "cli_tts", "cli_pad", "cli_post",
                           "cli_quit", "cli_interrupt", "cli_crash"}}
CliStages == <<"generate", "synthesize", "pad", "postprocess", "done">>
StagesUpTo(n) == {CliStages[k] : k \in 1..n}
Position(stage) == CHOOSE k \in 1..Len(CliStages) : CliStages[k] = stage

\* the loop of t read a line (the last input() call returned it)
ReadLine(t) == thr[t].text_input # None /\ "input" \notin hist[t].failed
                   /\ thr[t].pc # "cli_interrupt"

\* what C25 says of every stage but text generation, and of the loop
LoopRules(t) ==
    /\ thr[t].pc # "cli_crash"
    /\ \E n \in 0..Len(CliStages) : hist[t].stages = StagesUpTo(n)
    /\ \A stage \in hist[t].failed \cap {"synthesize", "pad", "postprocess"} :
         /\ thr[t].pc = "cli_input"
         /\ hist[t].stages = StagesUpTo(Position(stage))
    /\ thr[t].pc = "cli_quit" =>
         lower(thr[t].text_input.s) \in QuitCommands /\ hist[t].stages = {}
    /\ (ReadLine(t) /\ lower(thr[t].text_input.s) \in QuitCommands) =>
         thr[t].pc = "cli_quit"
    /\ (ReadLine(t) /\ strip(thr[t].text_input.s) = <<>>) =>
         thr[t].pc = "cli_input" /\ hist[t].stages = {} /\ hist[t].net = {}

\* C25 as stated: an error of any stage, text generation included, ends the
\* iteration (no later stage runs, the loop is at input() again).  Violated:
\* generate_gospel_text catches what the request raises and returns the
\* input as it is, and the iteration goes on to generate_prayer_audio.
C25_EveryErrorEndsIteration ==
    \A t \in Loops :
        /\ LoopRules(t)
        /\ "generate" \in hist[t].failed =>
             thr[t].pc = "cli_input" /\ hist[t].stages = {"generate"}

\* C25, amended: an error of the synthesis request, of the silence padding
\* or of the post-processing ends the iteration it is raised in and nothing
\* else: no later stage of it runs and the loop is at input() again; an
\* error of text generation ends nothing: the stage returns the input as it
\* is and the iteration goes on to synthesis with it.  The loop ends only
\* by a quit command (q, quit, exit in any case, nothing around it) or by a
\* keyboard interrupt, and a blank line runs no stage.
C25_LoopSurvivesErrors ==
    \A t \in Loops :
        /\ LoopRules(t)
        /\ "generate" \in hist[t].failed =>
             /\ "synthesize" \in hist[t].stages \/ thr[t].pc \in {"cli_tts", "cli_interrupt"}
             /\ thr[t].pc = "cli_tts" => thr[t].spoken = thr[t].text_input

\* after an iteration that a stage ended by raising, a later input went
\* through all the stages
C25_Witness ==
    \E t \in Loops :
        /\ hist[t].errors >= 1
        /\ "done" \in hist[t].stages
        /\ hist[t].failed = {}
        /\ thr[t].pc = "cli_input"

====
